---- MODULE Spec2Model ----
(***************************************************************************)
(* cspit: ingestion of browser security reports (legacy CSP wrapper and    *)
(* W3C Reporting API payloads) keyed by an endpoint, and the endpoint      *)
(* registry.  The model follows the route handlers:                        *)
(*   POST /api/v1/report/{endpoint}   src/app/api/v1/report/[endpoint]     *)
(*   POST /api/report/{endpoint}      src/app/api/report/[endpoint]        *)
(*   POST /api/report                 src/app/api/report                   *)
(*   GET, POST, DELETE /api/endpoints the endpoints route                  *)
(*   GET /api/reports                 src/app/api/reports                  *)
(* Every handler is one atomic action: request in, store writes, response; *)
(* the ingestion and delete handlers are modelled a second time one store  *)
(* operation per step (calls), for the properties of overlapping requests. *)
(***************************************************************************)
EXTENDS Integers, Sequences, FiniteSets, TLC

VARIABLES
    endpoints,    \* the endpoint collection: set of [id, token, label]
    reports,      \* the unified `report` collection: set of [id, endpointId, data]
    cspReports,   \* the legacy `cspReport` collection: set of [id, endpointId, data]
    nextId,       \* the next identifier the store hands out
    timestamp,    \* the `timestamp` column of the stored reports, by report id
    now,          \* the wall clock, in seconds
    request,      \* the HTTP request handled last
    response,     \* the HTTP response to it
    calls         \* the requests being served one store operation at a time

vars == <<endpoints, reports, cspReports, nextId, timestamp, now, request, response, calls>>

(***************************************************************************)
(* Bounds of the model.                                                    *)
(***************************************************************************)
MaxIds == 3        \* identifiers the store hands out (endpoints and reports)
MaxLegacyIds == 2  \* the same, in the runs of the legacy routes
MaxLen == 3        \* longest array body of a modern batch
MaxQueryIds == 4   \* identifiers the store hands out, in the runs of the query
MaxPage == 3       \* largest page parameter
MaxLimit == 2      \* largest limit parameter
MaxTimeIds == 3        \* identifiers the store hands out, in the time runs
MaxTimeInstants == 7   \* instants the clock takes in the time runs
MaxScopeIds == 4       \* identifiers the store hands out, in the scoping runs
MaxCalls == 2          \* requests served at the same time
MaxStepIds == 4        \* identifiers the store hands out, in the interleaved runs

(***************************************************************************)
(* JSON values, as JSON.parse yields them.  Every value is a record of the *)
(* same shape so that any two values can be compared:                      *)
(*   kind    "undefined" | "null" | "bool" | "num" | "str" | "obj" | "arr" *)
(*   lit     the literal of a scalar (the characters of a string, the      *)
(*           digits of a number, true/false)                               *)
(*   fields  the own properties of an object, key -> value                 *)
(*   elems   the elements of an array                                      *)
(* "undefined" is what a property access yields for a missing key; it is   *)
(* never part of a request body.                                           *)
(***************************************************************************)
NoFields == [k \in {} |-> ""]

Undefined == [kind |-> "undefined", lit |-> "", fields |-> NoFields, elems |-> <<>>]
Null      == [kind |-> "null", lit |-> "null", fields |-> NoFields, elems |-> <<>>]
Bool(b)   == [kind |-> "bool", lit |-> b, fields |-> NoFields, elems |-> <<>>]
Num(n)    == [kind |-> "num", lit |-> ToString(n), fields |-> NoFields, elems |-> <<>>]
Str(s)    == [kind |-> "str", lit |-> s, fields |-> NoFields, elems |-> <<>>]
Obj(f)    == [kind |-> "obj", lit |-> "", fields |-> f, elems |-> <<>>]
Arr(s)    == [kind |-> "arr", lit |-> "", fields |-> NoFields, elems |-> s]

\* JavaScript truthiness: undefined, null, false, 0 and "" are falsy.
Truthy(v) ==
    CASE v.kind \in {"undefined", "null"} -> FALSE
      [] v.kind = "bool" -> v.lit = "true"
      [] v.kind = "num"  -> v.lit # "0"
      [] v.kind = "str"  -> v.lit # ""
      [] OTHER -> TRUE

\* v[key] for a v that is neither null nor undefined (those throw a
\* TypeError, see Throws): the own property, or undefined.
Get(v, key) ==
    IF v.kind = "obj" /\ key \in DOMAIN v.fields THEN v.fields[key] ELSE Undefined

\* Reading a property of null throws a TypeError.
Throws(v) == v.kind \in {"null", "undefined"}

\* a || b
Or(a, b) == IF Truthy(a) THEN a ELSE b

\* Array.isArray(v)
IsArray(v) == v.kind = "arr"

\* typeof v === 'object' && v !== null
IsObject(v) == v.kind \in {"obj", "arr"}

(***************************************************************************)
(* JSON.stringify(value, null, 2): the text of a value, two spaces of      *)
(* indentation per level.  An object's keys are written in KeyOrder, the   *)
(* order the request bodies of this model carry them in.                   *)
(***************************************************************************)
KeyOrder == <<"csp-report", "document-uri", "referrer", "violated-directive",
              "effective-directive", "original-policy", "disposition",
              "blocked-uri", "line-number", "column-number", "source-file",
              "status-code", "script-sample",
              "type", "age", "url", "user_agent", "body", "id", "message",
              "endpointId", "timestamp">>

RECURSIVE Join(_, _)
Join(parts, sep) ==
    IF Len(parts) = 0 THEN ""
    ELSE IF Len(parts) = 1 THEN parts[1]
    ELSE parts[1] \o sep \o Join(Tail(parts), sep)

RECURSIVE Stringify(_, _)
Stringify(v, indent) ==
    LET inner == indent \o "  "
        IsKey(k) == k \in DOMAIN v.fields
        keys == SelectSeq(KeyOrder, IsKey)
    IN  CASE v.kind = "str" -> "\"" \o v.lit \o "\""
          [] v.kind = "obj" ->
                IF Len(keys) = 0 THEN "{}"
                ELSE "{\n"
                     \o Join([i \in 1..Len(keys) |->
                                inner \o "\"" \o keys[i] \o "\": "
                                \o Stringify(v.fields[keys[i]], inner)], ",\n")
                     \o "\n" \o indent \o "}"
          [] v.kind = "arr" ->
                IF Len(v.elems) = 0 THEN "[]"
                ELSE "[\n"
                     \o Join([i \in 1..Len(v.elems) |->
                                inner \o Stringify(v.elems[i], inner)], ",\n")
                     \o "\n" \o indent \o "]"
          [] OTHER -> v.lit

(***************************************************************************)
(* The store (Prisma over MongoDB).  An endpoint is [id, token, label];    *)
(* `token` is the key the ingestion URL carries.  The v1 route and the     *)
(* default route address the same key by its earlier name, `name`          *)
(* (findUnique({where: {name}}), create({data: {name}})).                  *)
(* A stored report is [id, endpointId, data]; data maps the columns that   *)
(* were given a value to that value: a column passed `undefined` is not    *)
(* set at all, a column passed `null` holds an explicit null.              *)
(***************************************************************************)
NoEndpoint == [id |-> 0, token |-> "", label |-> ""]

\* prisma.endpoint.findUnique({ where: { token } }); NoEndpoint for null
findUnique(eps, token) ==
    IF \E e \in eps : e.token = token
    THEN CHOOSE e \in eps : e.token = token
    ELSE NoEndpoint

\* the data object of a create() call, the undefined columns left out
Data(f) == [k \in {c \in DOMAIN f : f[c].kind # "undefined"} |-> f[k]]

\* prisma.<collection>.create({ data }): the new row
create(id, endpointId, data) == [id |-> id, endpointId |-> endpointId, data |-> Data(data)]

(***************************************************************************)
(* HTTP responses.  A field the handler does not send is "" (strings) or   *)
(* -1 (numbers).                                                           *)
(***************************************************************************)
\* the confirmation of a delete: `Endpoint "${label}" and ${reports}
\* associated reports deleted successfully`
NoMessage == [label |-> "", reports |-> -1]

NoResponse == [status |-> 0, error |-> "", success |-> FALSE, id |-> -1, endpoint |-> "",
               format |-> "", reportsProcessed |-> -1, totalReports |-> -1,
               reports |-> <<>>, totalCount |-> -1, totalPages |-> -1,
               currentPage |-> -1, itemsPerPage |-> -1, cspCount |-> -1,
               genericCount |-> -1, endpoints |-> {}, message |-> NoMessage]

Error(status, message) == [NoResponse EXCEPT !.status = status, !.error = message]

ErrInvalidCsp      == "Invalid CSP report format"
ErrTokenNotFound   == "Endpoint token '{endpointName}' not found. Please create the endpoint first."
ErrSaveCsp         == "Failed to save CSP report"
ErrExpectedReports == "Expected a report object or an array of reports"
ErrProcessReports  == "Failed to process reports"

\* result.error.includes('not found')
IncludesNotFound(message) == message \in {ErrTokenNotFound, "Endpoint not found"}

\* what a handler hands back: the store after it, and the response
Outcome(eps, reps, csps, nid, resp) ==
    [endpoints |-> eps, reports |-> reps, cspReports |-> csps, nextId |-> nid, response |-> resp]

(***************************************************************************)
(* POST /api/report/{endpoint}: legacy CSP ingestion, token-gated.         *)
(***************************************************************************)
\* cspReport['violated-directive'] || null, and the like
requiredSwapped(cspReport, key) ==
    Or(Get(cspReport, IF key = "effective-directive" THEN "violated-directive" ELSE key), Null)
required(cspReport, key) == Or(Get(cspReport, key), Null)

\* cspReport.disposition || 'enforce'
dispositionNoDefault(cspReport) == Get(cspReport, "disposition")
disposition(cspReport) == Or(Get(cspReport, "disposition"), Str("enforce"))

\* if (value) reportData.column = value: a falsy value leaves the column unset
optional(value) == IF Truthy(value) THEN value ELSE Undefined

\* reportData: the columns of the unified report, from the csp-report value
reportData(body, cspReport, userAgent) ==
    [ type               |-> Str("csp-violation"),
      url                |-> required(cspReport, "document-uri"),
      documentUri        |-> required(cspReport, "document-uri"),
      violatedDirective  |-> required(cspReport, "violated-directive"),
      effectiveDirective |-> required(cspReport, "effective-directive"),
      originalPolicy     |-> required(cspReport, "original-policy"),
      disposition        |-> disposition(cspReport),
      rawReport          |-> Str(Stringify(body, "")),
      referrer           |-> optional(Get(cspReport, "referrer")),
      blockedUri         |-> optional(Get(cspReport, "blocked-uri")),
      lineNumber         |-> optional(Get(cspReport, "line-number")),
      columnNumber       |-> optional(Get(cspReport, "column-number")),
      sourceFile         |-> optional(Get(cspReport, "source-file")),
      statusCode         |-> optional(Get(cspReport, "status-code")),
      scriptSample       |-> optional(Get(cspReport, "script-sample")),
      userAgent          |-> optional(userAgent) ]

POST_report_endpoint(endpointName, body, userAgent, eps, reps, csps, nid) ==
    LET cspReport == Get(body, "csp-report")
        endpoint  == findUnique(eps, endpointName)
        report    == create(nid, endpoint.id, reportData(body, cspReport, userAgent))
    IN  IF Throws(body)
        THEN Outcome(eps, reps, csps, nid, Error(500, ErrSaveCsp))
        ELSE IF ~Truthy(cspReport)
        THEN Outcome(eps, reps, csps, nid, Error(400, ErrInvalidCsp))
        ELSE IF endpoint = NoEndpoint
        THEN Outcome(eps, reps, csps, nid, Error(404, ErrTokenNotFound))
        ELSE Outcome(eps, reps \cup {report}, csps, nid + 1,
                     [NoResponse EXCEPT !.status = 201, !.success = TRUE,
                                        !.id = report.id, !.endpoint = endpointName])

(***************************************************************************)
(* The find-or-create of the v1 route and of the default route:            *)
(* findUnique({where: {name}}), and create({data: {name}}) when absent.    *)
(* Yields the endpoint, the collection after it and the next free id.      *)
(***************************************************************************)
findOrCreate(eps, name, nid) ==
    LET found == findUnique(eps, name)
        made  == [id |-> nid, token |-> name, label |-> name]
    IN  IF found # NoEndpoint
        THEN [endpoint |-> found, endpoints |-> eps, nextId |-> nid]
        ELSE [endpoint |-> made, endpoints |-> eps \cup {made}, nextId |-> nid + 1]

\* the columns of a legacy cspReport row (v1 route and default route)
cspReportData(body, cspReport, userAgent) ==
    [ documentUri        |-> Or(Get(cspReport, "document-uri"), Str("")),
      referrer           |-> Or(Get(cspReport, "referrer"), Undefined),
      violatedDirective  |-> Or(Get(cspReport, "violated-directive"), Str("")),
      effectiveDirective |-> Or(Get(cspReport, "effective-directive"), Str("")),
      originalPolicy     |-> Or(Get(cspReport, "original-policy"), Str("")),
      disposition        |-> disposition(cspReport),
      blockedUri         |-> Or(Get(cspReport, "blocked-uri"), Undefined),
      lineNumber         |-> Or(Get(cspReport, "line-number"), Undefined),
      columnNumber       |-> Or(Get(cspReport, "column-number"), Undefined),
      sourceFile         |-> Or(Get(cspReport, "source-file"), Undefined),
      statusCode         |-> Or(Get(cspReport, "status-code"), Undefined),
      scriptSample       |-> Or(Get(cspReport, "script-sample"), Undefined),
      userAgent          |-> Or(userAgent, Undefined),
      rawReport          |-> Str(Stringify(body, "")) ]

(***************************************************************************)
(* POST /api/report: legacy CSP ingestion against the endpoint 'default'.  *)
(***************************************************************************)
POST_report(body, userAgent, eps, reps, csps, nid) ==
    LET cspReport == Get(body, "csp-report")
        foc       == findOrCreate(eps, "default", nid)
        report    == create(foc.nextId, foc.endpoint.id,
                            cspReportData(body, cspReport, userAgent))
    IN  IF Throws(body)
        THEN Outcome(eps, reps, csps, nid, Error(500, ErrSaveCsp))
        ELSE IF ~Truthy(cspReport)
        THEN Outcome(eps, reps, csps, nid, Error(400, ErrInvalidCsp))
        ELSE Outcome(foc.endpoints, reps, csps \cup {report}, foc.nextId + 1,
                     [NoResponse EXCEPT !.status = 201, !.success = TRUE, !.id = report.id])

(***************************************************************************)
(* POST /api/v1/report/{endpoint}: unified ingestion.                      *)
(***************************************************************************)
\* if (!report.type || !report.url): the element is skipped
SkippedTypeOnly(report) == ~Truthy(Get(report, "type"))
Skipped(report) == ~Truthy(Get(report, "type")) \/ ~Truthy(Get(report, "url"))

\* the columns of a modern report row
modernData(report) ==
    [ type      |-> Get(report, "type"),
      url       |-> Get(report, "url"),
      userAgent |-> Or(Get(report, "user_agent"), Undefined),
      body      |-> Or(Get(report, "body"), Null),
      age       |-> Or(Get(report, "age"), Undefined) ]

\* for (const report of reportsArray), from element i on.  A null element
\* throws at report.type, outside the inner try: the loop ends there, the
\* rows created so far stay, and the handler's catch answers.
RECURSIVE processReports(_, _, _, _, _, _)
processReports(reportsArray, i, endpointId, reps, nid, createdReports) ==
    IF i > Len(reportsArray)
    THEN [reports |-> reps, nextId |-> nid, createdReports |-> createdReports, threw |-> FALSE]
    ELSE LET report == reportsArray[i]
         IN  IF Throws(report)
             THEN [reports |-> reps, nextId |-> nid, createdReports |-> createdReports,
                   threw |-> TRUE]
             ELSE IF Skipped(report)
             THEN processReports(reportsArray, i + 1, endpointId, reps, nid, createdReports)
             ELSE processReports(reportsArray, i + 1, endpointId,
                                 reps \cup {create(nid, endpointId, modernData(report))},
                                 nid + 1, createdReports + 1)

\* the format the body is handled as once it is not a legacy CSP report
formatAlwaysArray(body) == "modern-array"
modernFormat(body) == IF IsArray(body) THEN "modern-array" ELSE "modern-single"

\* reportsArray: the array itself, or the single object wrapped in one
reportsArrayOf(body) == IF IsArray(body) THEN body.elems ELSE <<body>>

POST_v1_report(endpointName, body, userAgent, eps, reps, csps, nid) ==
    LET cspReport    == Get(body, "csp-report")
        foc          == findOrCreate(eps, endpointName, nid)
        legacy       == create(foc.nextId, foc.endpoint.id,
                               cspReportData(body, cspReport, userAgent))
        reportsArray == reportsArrayOf(body)
        loop         == processReports(reportsArray, 1, foc.endpoint.id, reps, foc.nextId, 0)
    IN  IF Throws(body)
        THEN Outcome(eps, reps, csps, nid, Error(500, ErrProcessReports))
        ELSE IF Truthy(cspReport)
        THEN Outcome(foc.endpoints, reps, csps \cup {legacy}, foc.nextId + 1,
                     [NoResponse EXCEPT !.status = 201, !.success = TRUE, !.id = legacy.id,
                                        !.endpoint = endpointName, !.format = "legacy-csp"])
        ELSE IF ~IsObject(body)
        THEN Outcome(eps, reps, csps, nid, Error(400, ErrExpectedReports))
        ELSE IF loop.threw
        THEN Outcome(foc.endpoints, loop.reports, csps, loop.nextId,
                     Error(500, ErrProcessReports))
        ELSE Outcome(foc.endpoints, loop.reports, csps, loop.nextId,
                     [NoResponse EXCEPT !.status = 201, !.success = TRUE,
                                        !.endpoint = endpointName,
                                        !.reportsProcessed = loop.createdReports,
                                        !.totalReports = Len(reportsArray),
                                        !.format = modernFormat(body)])

(***************************************************************************)
(* POST /api/endpoints and DELETE /api/endpoints?id=...                    *)
(* session is requireAuth()'s answer; token is the value the store         *)
(* generates for the new endpoint.                                         *)
(***************************************************************************)
ErrUnauthorized  == "Unauthorized"
ErrLabelRequired == "Endpoint label is required and must be a non-empty string"
ErrLabelTooLong  == "Endpoint label must be 100 characters or less"
ErrIdRequired    == "Endpoint ID is required"
ErrNotFound      == "Endpoint not found"

MaxLabelLength == 100

\* label.trim(): the text without its leading and trailing spaces
RECURSIVE trimStart(_)
trimStart(s) == IF Len(s) > 0 /\ Head(s) = " " THEN trimStart(Tail(s)) ELSE s

RECURSIVE trimEnd(_)
trimEnd(s) ==
    IF Len(s) > 0 /\ SubSeq(s, Len(s), Len(s)) = " "
    THEN trimEnd(SubSeq(s, 1, Len(s) - 1))
    ELSE s

trimNone(s) == s
trim(s) == trimEnd(trimStart(s))

POST_endpoints(session, label, token, eps, reps, csps, nid) ==
    LET trimmedLabel == trim(label.lit)
        endpoint     == [id |-> nid, token |-> token, label |-> trimmedLabel]
    IN  IF ~session
        THEN Outcome(eps, reps, csps, nid, Error(401, ErrUnauthorized))
        ELSE IF ~Truthy(label) \/ label.kind # "str" \/ Len(trimmedLabel) = 0
        THEN Outcome(eps, reps, csps, nid, Error(400, ErrLabelRequired))
        ELSE IF Len(trimmedLabel) > MaxLabelLength
        THEN Outcome(eps, reps, csps, nid, Error(400, ErrLabelTooLong))
        ELSE Outcome(eps \cup {endpoint}, reps, csps, nid + 1,
                     [NoResponse EXCEPT !.status = 201, !.id = endpoint.id,
                                        !.endpoint = endpoint.token])

\* _count: { select: { reports: true } }: the number of reports that
\* reference the endpoint through its `reports` relation
countReports(endpointId, reps) == Cardinality({r \in reps : r.endpointId = endpointId})

\* the message of the delete's answer, for the endpoint found
deleted(found, reps) ==
    LET endpoint == CHOOSE e \in found : TRUE
    IN  [label |-> endpoint.label, reports |-> countReports(endpoint.id, reps)]

DELETE_endpointsNoIdTest(session, endpointId, eps, reps, csps, nid) ==
    LET found == {e \in eps : e.id = endpointId}
    IN  IF ~session
        THEN Outcome(eps, reps, csps, nid, Error(401, ErrUnauthorized))
        ELSE IF found = {}
        THEN Outcome(eps, reps, csps, nid, Error(404, ErrNotFound))
        ELSE Outcome(eps \ found, reps, {r \in csps : r.endpointId # endpointId}, nid,
                     [NoResponse EXCEPT !.status = 200, !.success = TRUE,
                                        !.message = deleted(found, reps)])

DELETE_endpoints(session, endpointId, eps, reps, csps, nid) ==
    LET found == {e \in eps : e.id = endpointId}
    IN  IF ~session
        THEN Outcome(eps, reps, csps, nid, Error(401, ErrUnauthorized))
        ELSE IF endpointId = 0
        THEN Outcome(eps, reps, csps, nid, Error(400, ErrIdRequired))
        ELSE IF found = {}
        THEN Outcome(eps, reps, csps, nid, Error(404, ErrNotFound))
        ELSE Outcome(eps \ found, reps, {r \in csps : r.endpointId # endpointId}, nid,
                     [NoResponse EXCEPT !.status = 200, !.success = TRUE,
                                        !.message = deleted(found, reps)])

(***************************************************************************)
(* GET /api/endpoints: the registry's listing, session required.  The      *)
(* answer is the endpoints' id, token and label; the order of the listing  *)
(* (by label) is left out.                                                 *)
(***************************************************************************)
GET_endpointsNoSession(session, eps, reps, csps, nid) ==
    Outcome(eps, reps, csps, nid, [NoResponse EXCEPT !.status = 200, !.endpoints = eps])

GET_endpoints(session, eps, reps, csps, nid) ==
    IF ~session
    THEN Outcome(eps, reps, csps, nid, Error(401, ErrUnauthorized))
    ELSE Outcome(eps, reps, csps, nid,
                 [NoResponse EXCEPT !.status = 200, !.endpoints = eps])

(***************************************************************************)
(* GET /api/reports: the query over both collections, session required.    *)
(* query is the search parameters, each null when absent: endpoint, type,  *)
(* page, limit, timeRange.  ts is the timestamp column, clock the value of *)
(* new Date() when the query runs.                                         *)
(***************************************************************************)
\* parseInt(text, 10), for the decimal numerals up to 99
parseInt(text) == CHOOSE n \in 0..99 : ToString(n) = text

\* the window of a named time range.  The code counts milliseconds
\* (30 * 60 * 1000); the model counts seconds, every time of it being a
\* whole number of seconds, and 30 days of milliseconds being more than the
\* integers of the model checker hold.
TimeRanges == {"last_30m", "last_1h", "last_24h", "last_7d", "last_30d"}

windowAlwaysHour(timeRange) == 60 * 60
window(timeRange) ==
    CASE timeRange = "last_30m" -> 30 * 60
      [] timeRange = "last_1h"  -> 60 * 60
      [] timeRange = "last_24h" -> 24 * 60 * 60
      [] timeRange = "last_7d"  -> 7 * 24 * 60 * 60
      [] timeRange = "last_30d" -> 30 * 24 * 60 * 60

\* timeFilter: <<the earliest timestamp>>, or <<>> for undefined
timeFilter(timeRange, clock) ==
    IF timeRange \in TimeRanges THEN <<clock - window(timeRange)>> ELSE <<>>

\* buildWhereClause(): the rows of a collection the filters let through.  The
\* endpoint filter is a filter on the related endpoint's token.
buildWhereClauseAnyEndpoint(rows, endpointFilter, filter, eps, ts) ==
    {row \in rows : Len(filter) > 0 => ts[row.id] >= filter[1]}

buildWhereClause(rows, endpointFilter, filter, eps, ts) ==
    {row \in rows :
        /\ Truthy(endpointFilter) =>
              \E e \in eps : e.id = row.endpointId /\ e.token = endpointFilter.lit
        /\ Len(filter) > 0 => ts[row.id] >= filter[1]}

\* orderBy: { timestamp: 'desc' }; rows of one timestamp in insertion order
RECURSIVE orderBy(_, _)
orderBy(rows, ts) ==
    IF rows = {} THEN <<>>
    ELSE LET first == CHOOSE r \in rows :
                        \A o \in rows : \/ ts[r.id] > ts[o.id]
                                        \/ ts[r.id] = ts[o.id] /\ r.id <= o.id
         IN  <<first>> \o orderBy(rows \ {first}, ts)

\* skip and take of findMany, and Array.prototype.slice(skip, skip + limit)
slice(list, skip, limit) ==
    SubSeq(list, skip + 1, IF skip + limit < Len(list) THEN skip + limit ELSE Len(list))

\* the transformed reports
transformCsp(row, ts) ==
    [id |-> row.id, timestamp |-> ts[row.id], reportType |-> "csp-violation",
     source |-> "legacy", endpointId |-> row.endpointId]

transformGeneric(row, ts) ==
    [id |-> row.id, timestamp |-> ts[row.id], reportType |-> row.data["type"].lit,
     source |-> "reporting-api", endpointId |-> row.endpointId]

\* allReports.sort((a, b) => b.timestamp - a.timestamp): stable, descending
sortNone(list) == list

RECURSIVE sort(_)
sort(list) ==
    IF Len(list) = 0 THEN <<>>
    ELSE LET rest  == sort(SubSeq(list, 1, Len(list) - 1))
             last  == list[Len(list)]
             ahead == Cardinality({i \in 1..Len(rest) : rest[i].timestamp >= last.timestamp})
         IN  SubSeq(rest, 1, ahead) \o <<last>> \o SubSeq(rest, ahead + 1, Len(rest))

\* Math.ceil(totalCount / limit)
ceilDiv(a, b) == (a + b - 1) \div b

GET_reports(session, query, eps, reps, csps, nid, ts, clock) ==
    LET endpointFilter == query.endpoint
        reportType     == query.type
        page           == parseInt(Or(query.page, Str("1")).lit)
        limit          == parseInt(Or(query.limit, Str("50")).lit)
        skip           == (page - 1) * limit
        timeRange      == Or(query.timeRange, Str("last_1h")).lit
        filter         == timeFilter(timeRange, clock)
        wantCsp        == ~Truthy(reportType) \/ reportType.lit \in {"all", "csp"}
        wantGeneric    == ~Truthy(reportType) \/ reportType.lit \in {"all", "generic"}
        cspWhere       == buildWhereClause(csps, endpointFilter, filter, eps, ts)
        genericWhere   == buildWhereClause(reps, endpointFilter, filter, eps, ts)
        totalCspCount     == IF wantCsp THEN Cardinality(cspWhere) ELSE 0
        totalGenericCount == IF wantGeneric THEN Cardinality(genericWhere) ELSE 0
        totalCount     == totalCspCount + totalGenericCount
        cspReports_    == IF ~wantCsp THEN <<>>
                          ELSE IF reportType = Str("csp")
                          THEN slice(orderBy(cspWhere, ts), skip, limit)
                          ELSE orderBy(cspWhere, ts)
        genericReports == IF ~wantGeneric THEN <<>>
                          ELSE IF reportType = Str("generic")
                          THEN slice(orderBy(genericWhere, ts), skip, limit)
                          ELSE orderBy(genericWhere, ts)
        allReports     == sort([i \in 1..Len(cspReports_) |-> transformCsp(cspReports_[i], ts)]
                               \o [i \in 1..Len(genericReports) |->
                                       transformGeneric(genericReports[i], ts)])
        paginatedReports == IF reportType = Str("all")
                            THEN slice(allReports, skip, limit)
                            ELSE allReports
    IN  IF ~session
        THEN Outcome(eps, reps, csps, nid, Error(401, ErrUnauthorized))
        ELSE Outcome(eps, reps, csps, nid,
                     [NoResponse EXCEPT !.status = 200,
                                        !.reports = paginatedReports,
                                        !.totalCount = totalCount,
                                        !.totalPages = ceilDiv(totalCount, limit),
                                        !.currentPage = page,
                                        !.itemsPerPage = limit,
                                        !.cspCount = totalCspCount,
                                        !.genericCount = totalGenericCount])

(***************************************************************************)
(* The handlers, one store operation at a time.  Each `await prisma...` is *)
(* one round trip to the store, and requests served at the same time       *)
(* interleave between them.  A call is a request being served: op names    *)
(* the handler, pc the store operation it is about to make ("done" once    *)
(* it has answered), the other fields are the handler's local variables.   *)
(* known and failed keep, for the properties, whether the endpoint existed *)
(* when the call began and whether a store operation of the call failed.   *)
(* fails is the store's answer to the operation: it throws.                *)
(***************************************************************************)
NoCall == [op |-> "", pc |-> "", endpointName |-> "", body |-> Undefined,
           userAgent |-> Null, id |-> 0, endpoint |-> NoEndpoint, i |-> 0,
           createdReports |-> <<>>, message |-> NoMessage,
           known |-> FALSE, failed |-> FALSE, response |-> NoResponse]

\* what a store operation hands back: the store after it, and the call
Progress(eps, reps, csps, nid, call) ==
    [endpoints |-> eps, reports |-> reps, cspReports |-> csps, nextId |-> nid, call |-> call]

\* the call answers
Answer(call, resp) == [call EXCEPT !.pc = "done", !.response = resp]

\* the store threw: the handler's catch answers 500
Caught(call, message) ==
    [call EXCEPT !.pc = "done", !.failed = TRUE, !.response = Error(500, message)]

\* --- POST /api/report/{endpoint} ---
\* lines 27-38: the body is read and its csp-report value tested
Legacy_begin(endpointName, body, userAgent, eps) ==
    LET call == [NoCall EXCEPT !.op = "POST /api/report/{endpoint}",
                               !.endpointName = endpointName, !.body = body,
                               !.userAgent = userAgent,
                               !.known = findUnique(eps, endpointName) # NoEndpoint]
    IN  IF Throws(body) THEN Answer(call, Error(500, ErrSaveCsp))
        ELSE IF ~Truthy(Get(body, "csp-report")) THEN Answer(call, Error(400, ErrInvalidCsp))
        ELSE [call EXCEPT !.pc = "findUnique"]

\* lines 41-50
Legacy_findUnique(call, fails, eps, reps, csps, nid) ==
    LET endpoint == findUnique(eps, call.endpointName)
    IN  Progress(eps, reps, csps, nid,
            IF fails THEN Caught(call, ErrSaveCsp)
            ELSE IF endpoint = NoEndpoint THEN Answer(call, Error(404, ErrTokenNotFound))
            ELSE [call EXCEPT !.endpoint = endpoint, !.pc = "report.create"])

\* lines 53-84
Legacy_report_create(call, fails, eps, reps, csps, nid) ==
    LET report == create(nid, call.endpoint.id,
                         reportData(call.body, Get(call.body, "csp-report"), call.userAgent))
    IN  IF fails THEN Progress(eps, reps, csps, nid, Caught(call, ErrSaveCsp))
        ELSE Progress(eps, reps \cup {report}, csps, nid + 1,
                 Answer([call EXCEPT !.createdReports = <<report.id>>],
                        [NoResponse EXCEPT !.status = 201, !.success = TRUE,
                                           !.id = report.id,
                                           !.endpoint = call.endpointName]))

\* --- POST /api/v1/report/{endpoint} ---
\* lines 20-83: the body is read and its format detected
V1_begin(endpointName, body, userAgent, eps) ==
    LET call == [NoCall EXCEPT !.op = "POST /api/v1/report/{endpoint}",
                               !.endpointName = endpointName, !.body = body,
                               !.userAgent = userAgent, !.i = 1,
                               !.known = findUnique(eps, endpointName) # NoEndpoint]
    IN  IF Throws(body) THEN Answer(call, Error(500, ErrProcessReports))
        ELSE IF Truthy(Get(body, "csp-report")) THEN [call EXCEPT !.pc = "findUnique"]
        ELSE IF ~IsObject(body) THEN Answer(call, Error(400, ErrExpectedReports))
        ELSE [call EXCEPT !.pc = "findUnique"]

\* the handler is in its legacy branch (line 24)
InLegacyBranch(call) == Truthy(Get(call.body, "csp-report"))

\* for (const report of reportsArray): from element i, the next element
\* that is not skipped; a null element throws at report.type
RECURSIVE nextReport(_, _)
nextReport(reportsArray, i) ==
    IF i > Len(reportsArray) THEN [i |-> i, threw |-> FALSE]
    ELSE IF Throws(reportsArray[i]) THEN [i |-> i, threw |-> TRUE]
    ELSE IF Skipped(reportsArray[i]) THEN nextReport(reportsArray, i + 1)
    ELSE [i |-> i, threw |-> FALSE]

\* the loop runs on to its next report.create, or the handler answers
\* (lines 99-132)
loop(call) ==
    LET reportsArray == reportsArrayOf(call.body)
        next         == nextReport(reportsArray, call.i)
    IN  IF next.threw THEN Answer(call, Error(500, ErrProcessReports))
        ELSE IF next.i > Len(reportsArray)
        THEN Answer([call EXCEPT !.i = next.i],
                    [NoResponse EXCEPT !.status = 201, !.success = TRUE,
                                       !.endpoint = call.endpointName,
                                       !.reportsProcessed = Len(call.createdReports),
                                       !.totalReports = Len(reportsArray),
                                       !.format = modernFormat(call.body)])
        ELSE [call EXCEPT !.i = next.i, !.pc = "report.create"]

\* after the endpoint is at hand: the legacy insert, or the loop
withEndpoint(call, endpoint) ==
    IF InLegacyBranch(call)
    THEN [call EXCEPT !.endpoint = endpoint, !.pc = "cspReport.create"]
    ELSE loop([call EXCEPT !.endpoint = endpoint])

\* lines 30-32 and 86-88
V1_findUnique(call, fails, eps, reps, csps, nid) ==
    LET endpoint == findUnique(eps, call.endpointName)
    IN  Progress(eps, reps, csps, nid,
            IF fails THEN Caught(call, ErrProcessReports)
            ELSE IF endpoint = NoEndpoint THEN [call EXCEPT !.pc = "endpoint.create"]
            ELSE withEndpoint(call, endpoint))

\* lines 34-38 and 90-94; the key is unique: the create throws when an
\* endpoint of that name has been created since the lookup
V1_endpoint_create(call, fails, eps, reps, csps, nid) ==
    LET made == [id |-> nid, token |-> call.endpointName, label |-> call.endpointName]
    IN  IF fails \/ findUnique(eps, call.endpointName) # NoEndpoint
        THEN Progress(eps, reps, csps, nid, Caught(call, ErrProcessReports))
        ELSE Progress(eps \cup {made}, reps, csps, nid + 1, withEndpoint(call, made))

\* lines 41-66
V1_cspReport_create(call, fails, eps, reps, csps, nid) ==
    LET report == create(nid, call.endpoint.id,
                         cspReportData(call.body, Get(call.body, "csp-report"),
                                       call.userAgent))
    IN  IF fails THEN Progress(eps, reps, csps, nid, Caught(call, ErrProcessReports))
        ELSE Progress(eps, reps, csps \cup {report}, nid + 1,
                 Answer([call EXCEPT !.createdReports = <<report.id>>],
                        [NoResponse EXCEPT !.status = 201, !.success = TRUE,
                                           !.id = report.id,
                                           !.endpoint = call.endpointName,
                                           !.format = "legacy-csp"]))

\* lines 106-123: the insert of element i; a throw is caught inside the
\* loop, which goes on to the next element
V1_report_createSameId(call, fails, eps, reps, csps, nid) ==
    LET report == create(nid, call.endpoint.id, modernData(reportsArrayOf(call.body)[call.i]))
    IN  IF fails
        THEN Progress(eps, reps, csps, nid,
                 loop([call EXCEPT !.i = call.i + 1, !.failed = TRUE]))
        ELSE Progress(eps, reps \cup {report}, csps, nid,
                 loop([call EXCEPT !.i = call.i + 1,
                                   !.createdReports = Append(call.createdReports, report.id)]))

V1_report_create(call, fails, eps, reps, csps, nid) ==
    LET report == create(nid, call.endpoint.id, modernData(reportsArrayOf(call.body)[call.i]))
    IN  IF fails
        THEN Progress(eps, reps, csps, nid,
                 loop([call EXCEPT !.i = call.i + 1, !.failed = TRUE]))
        ELSE Progress(eps, reps \cup {report}, csps, nid + 1,
                 loop([call EXCEPT !.i = call.i + 1,
                                   !.createdReports = Append(call.createdReports, report.id)]))

\* --- DELETE /api/endpoints?id=... ---
\* lines 99-116
Delete_begin(session, endpointId) ==
    LET call == [NoCall EXCEPT !.op = "DELETE /api/endpoints", !.id = endpointId]
    IN  IF ~session THEN Answer(call, Error(401, ErrUnauthorized))
        ELSE IF endpointId = 0 THEN Answer(call, Error(400, ErrIdRequired))
        ELSE [call EXCEPT !.pc = "findUnique"]

ErrDeleteFailed == "Failed to delete endpoint"

\* lines 119-137
Delete_findUnique(call, fails, eps, reps, csps, nid) ==
    LET found == {e \in eps : e.id = call.id}
    IN  Progress(eps, reps, csps, nid,
            IF fails THEN Caught(call, ErrDeleteFailed)
            ELSE IF found = {} THEN Answer(call, Error(404, ErrNotFound))
            ELSE [call EXCEPT !.endpoint = CHOOSE e \in found : TRUE,
                              !.message = deleted(found, reps),
                              !.pc = "cspReport.deleteMany"])

\* lines 140-142
Delete_cspReport_deleteMany(call, fails, eps, reps, csps, nid) ==
    IF fails THEN Progress(eps, reps, csps, nid, Caught(call, ErrDeleteFailed))
    ELSE Progress(eps, reps, {r \in csps : r.endpointId # call.id}, nid,
                  [call EXCEPT !.pc = "endpoint.delete"])

\* lines 145-152; the delete throws when the record is no longer there
Delete_endpoint_delete(call, fails, eps, reps, csps, nid) ==
    IF fails \/ ~\E e \in eps : e.id = call.id
    THEN Progress(eps, reps, csps, nid, Caught(call, ErrDeleteFailed))
    ELSE Progress({e \in eps : e.id # call.id}, reps, csps, nid,
                  Answer(call, [NoResponse EXCEPT !.status = 200, !.success = TRUE,
                                                  !.message = call.message]))

(***************************************************************************)
(* Request inputs.  The handlers treat every field of a payload on its     *)
(* own, so the csp-report values and the modern reports below carry, field *)
(* by field, each case: a value, no key, a falsy value.                    *)
(***************************************************************************)
Tokens == {"tokA", "tokB"}
Labels == {Str("  my-app "), Str("   "), Undefined}     \* the label of POST /api/endpoints

\* n times the letter a
RECURSIVE Rep(_)
Rep(n) == IF n = 0 THEN "" ELSE "a" \o Rep(n - 1)

\* label texts, each with the text it is without its surrounding spaces:
\* around the limit of 100 characters, empty, blank, with an inner space
LabelCases ==
    { [text |-> "  my-app ",                          trimmed |-> "my-app"],
      [text |-> "a b",                                trimmed |-> "a b"],
      [text |-> "   ",                                trimmed |-> ""],
      [text |-> "",                                   trimmed |-> ""],
      [text |-> " " \o Rep(MaxLabelLength) \o "  ",   trimmed |-> Rep(MaxLabelLength)],
      [text |-> Rep(MaxLabelLength + 1) \o " ",       trimmed |-> Rep(MaxLabelLength + 1)] }

\* every label of the registry's runs: the texts, and values that are no string
AllLabels == {Str(c.text) : c \in LabelCases} \cup {Undefined, Null, Num(5), Bool("true")}

\* the body of POST /api/endpoints: { label }, without the key when the label
\* is missing
LabelBody(label) == IF label = Undefined THEN Obj(NoFields) ELSE Obj("label" :> label)

\* a body that also carries a token and an id of the client's choosing
ClientToken == "client-token"
BodyWithToken ==
    Obj(("label" :> Str("  my-app ")) @@ ("token" :> Str(ClientToken)) @@ ("id" :> Num(1)))

EndpointBodies(labels) == {LabelBody(label) : label \in labels} \cup {BodyWithToken}

CspRequired ==
    ("document-uri" :> Str("https://x/")) @@ ("violated-directive" :> Str("script-src"))
    @@ ("effective-directive" :> Str("script-src-elem"))
    @@ ("original-policy" :> Str("default-src 'self'"))

CspFull ==
    CspRequired @@ ("referrer" :> Str("https://ref/")) @@ ("disposition" :> Str("report"))
    @@ ("blocked-uri" :> Str("https://evil/x.js")) @@ ("line-number" :> Num(12))
    @@ ("column-number" :> Num(34)) @@ ("source-file" :> Str("https://x/app.js"))
    @@ ("status-code" :> Num(200)) @@ ("script-sample" :> Str("alert(1)"))

\* every optional key present with a falsy value
CspFalsy ==
    CspRequired @@ ("referrer" :> Str("")) @@ ("disposition" :> Str(""))
    @@ ("blocked-uri" :> Null) @@ ("line-number" :> Num(0))
    @@ ("column-number" :> Num(0)) @@ ("source-file" :> Str(""))
    @@ ("status-code" :> Num(0)) @@ ("script-sample" :> Null)

\* the required keys present and empty
CspBlank ==
    ("document-uri" :> Str("")) @@ ("violated-directive" :> Str(""))
    @@ ("effective-directive" :> Str("")) @@ ("original-policy" :> Str(""))
    @@ ("disposition" :> Str("enforce"))

\* what the csp-report key may hold: objects, a truthy non-object, falsy values
CspValues == {Obj(CspFull), Obj(CspRequired), Obj(CspFalsy), Obj(CspBlank), Obj(NoFields),
              Bool("true"), Null, Str("")}

Wrapped(c) == Obj("csp-report" :> c)

LegacyBodies == {Wrapped(c) : c \in CspValues}

RFull ==
    Obj([type |-> Str("deprecation"), age |-> Num(1000), url |-> Str("https://x/page"),
         user_agent |-> Str("Mozilla/5.0 (Test Agent)"),
         body |-> Obj([id |-> Str("WebComponentsV0"), message |-> Str("deprecated")])])
RMinimal  == Obj([type |-> Str("csp-violation"), url |-> Str("https://x/csp")])
RFalsy    == Obj([type |-> Str("intervention"), age |-> Num(0), url |-> Str("https://x/i"),
                  user_agent |-> Str(""), body |-> Bool("false")])
RNoType   == Obj([age |-> Num(5), url |-> Str("https://x/page"), body |-> Obj(NoFields)])
RNoUrl    == Obj([type |-> Str("crash"), age |-> Num(5)])
REmptyUrl == Obj([type |-> Str("crash"), url |-> Str("")])

ModernObjects == {RFull, RMinimal, RFalsy, RNoType, RNoUrl, REmptyUrl, Obj(NoFields)}

\* what an array body may hold: a report, malformed reports, a non-object
ArrayElems == {RFull, RNoType, RNoUrl, Null}

SeqsUpTo(S, n) == UNION {[1..m -> S] : m \in 0..n}

ModernArrays ==
    {Arr(s) : s \in SeqsUpTo(ArrayElems, MaxLen)
                    \cup {<<r>> : r \in ModernObjects}
                    \cup {<<Num(7)>>, <<RFull, Str("report"), RMinimal>>}}

\* bodies that are neither an object nor an array
ScalarBodies == {Null, Num(0), Num(7), Str(""), Str("report"), Bool("false"), Bool("true")}

\* the bodies of the unified route's runs, and those of the legacy runs
UnifiedBodies == ModernObjects \cup ModernArrays \cup ScalarBodies
                 \cup {Wrapped(Obj(CspFull)), Wrapped(Null), Wrapped(Str("")), Wrapped(Bool("true"))}
OtherBodies   == {RMinimal, Arr(<<RFull>>), Null, Num(7)}

\* the bodies of the query runs: a legacy report (stored in cspReport), a
\* modern report of type csp-violation and one of type deprecation
QueryBodies == {Wrapped(Obj(CspRequired)), RMinimal, RFull}

\* payloads that carry fields of their own naming an owner, an id and a
\* timestamp: a modern report, and a legacy report with the fields beside
\* and inside the csp-report value
Foreign == [endpointId |-> Num(1), id |-> Num(1), timestamp |-> Num(0)]

RScoped ==
    Obj([type |-> Str("deprecation"), url |-> Str("https://x/page"),
         endpointId |-> Foreign.endpointId, id |-> Foreign.id,
         timestamp |-> Foreign.timestamp])

LegacyScoped ==
    Obj([endpointId |-> Foreign.endpointId, id |-> Foreign.id,
         timestamp |-> Foreign.timestamp] @@
        ("csp-report" :> Obj(CspRequired @@ Foreign)))

ScopedBodies == {RScoped, Arr(<<RScoped>>), LegacyScoped}

\* the search parameters of a request without them
NoQuery == [endpoint |-> Null, type |-> Null, page |-> Null, limit |-> Null,
            timeRange |-> Null]

\* the search parameters of GET /api/reports; null is the absent parameter
Numerals(n) == {Str(ToString(i)) : i \in 1..n}

Queries(timeRanges) ==
    [endpoint : {Null, Str("tokA")},
     type : {Null, Str("csp"), Str("generic"), Str("all")},
     page : {Null} \cup Numerals(MaxPage),
     limit : {Null} \cup Numerals(MaxLimit),
     timeRange : timeRanges]

\* the time ranges of the paging runs, and every time range
PagingRanges == {Null, Str("all")}
AllRanges    == {Null, Str("all")} \cup {Str(r) : r \in TimeRanges}

\* the queries of the time runs: every time range, the other parameters
\* absent or naming one type
TimeQueries ==
    {[NoQuery EXCEPT !.timeRange = r, !.type = t] :
        r \in AllRanges, t \in {Null, Str("csp"), Str("all")}}

\* the queries of the scoping runs: every report of one endpoint, named by
\* its token; tokC is a token of no endpoint
ScopeQueries ==
    {[NoQuery EXCEPT !.endpoint = Str(t), !.timeRange = Str("all")] :
        t \in Tokens \cup {"tokC"}}

\* the instants the clock takes: a second, and each window, after the first
\* insertion, and one second more
Instants ==
    <<1,
      1 + 30 * 60,
      1 + 60 * 60,
      1 + 24 * 60 * 60,
      1 + 7 * 24 * 60 * 60,
      1 + 30 * 24 * 60 * 60,
      2 + 30 * 24 * 60 * 60>>

InstantsUpTo(n) == {Instants[i] : i \in 1..(IF n < Len(Instants) THEN n ELSE Len(Instants))}

\* request.headers.get('user-agent'): null without the header.  The header
\* is independent of the body; each body is sent with one of the three cases.
headerUserAgent(body) ==
    IF body \in {Wrapped(Obj(CspFull)), RFull, Wrapped(Bool("true"))} THEN Str("Mozilla/5.0")
    ELSE IF body \in {Wrapped(Obj(CspFalsy)), RFalsy} THEN Str("")
    ELSE Null

(***************************************************************************)
(* The state machine.  request and response are the HTTP exchange being    *)
(* served; Complete ends it.  The handlers share nothing but the store.    *)
(***************************************************************************)
NoTimestamps == [id \in {} |-> 0]

\* the timestamp column: each report is given the clock's value when it is
\* inserted, and keeps it; a deleted report's timestamp goes with it
stamp(rows) ==
    [id \in {row.id : row \in rows} |->
        IF id \in DOMAIN timestamp THEN timestamp[id] ELSE now]

\* no request is being served step by step
NoCalls == [cid \in 1..MaxCalls |-> NoCall]

NoRequest == [method |-> "", route |-> "", endpointName |-> "", body |-> Undefined,
              userAgent |-> Null, session |-> FALSE, id |-> 0, label |-> Undefined,
              query |-> NoQuery]

Init ==
    /\ endpoints = {}
    /\ reports = {}
    /\ cspReports = {}
    /\ nextId = 1
    /\ timestamp = NoTimestamps
    /\ now = 0
    /\ request = NoRequest
    /\ response = NoResponse
    /\ calls = NoCalls

\* No exchange is being served.
Idle == request = NoRequest

\* the store takes what the handler hands back; ids are drawn from 1..maxIds
Apply(out, maxIds) ==
    /\ out.nextId <= maxIds + 1
    /\ endpoints' = out.endpoints
    /\ reports' = out.reports
    /\ cspReports' = out.cspReports
    /\ nextId' = out.nextId
    /\ timestamp' = stamp(out.reports \cup out.cspReports)
    /\ now' = now
    /\ response' = out.response
    /\ calls' = calls

PostV1Report(tokens, bodies, maxIds) ==
    /\ Idle
    /\ \E endpointName \in tokens, body \in bodies :
        /\ Apply(POST_v1_report(endpointName, body, headerUserAgent(body),
                                endpoints, reports, cspReports, nextId), maxIds)
        /\ request' = [NoRequest EXCEPT !.method = "POST", !.route = "/api/v1/report/{endpoint}",
                                        !.endpointName = endpointName, !.body = body,
                                        !.userAgent = headerUserAgent(body)]

PostReportEndpoint(tokens, bodies, maxIds) ==
    /\ Idle
    /\ \E endpointName \in tokens, body \in bodies :
        /\ Apply(POST_report_endpoint(endpointName, body, headerUserAgent(body),
                                      endpoints, reports, cspReports, nextId), maxIds)
        /\ request' = [NoRequest EXCEPT !.method = "POST", !.route = "/api/report/{endpoint}",
                                        !.endpointName = endpointName, !.body = body,
                                        !.userAgent = headerUserAgent(body)]

PostReport(bodies, maxIds) ==
    /\ Idle
    /\ \E body \in bodies :
        /\ Apply(POST_report(body, headerUserAgent(body),
                             endpoints, reports, cspReports, nextId), maxIds)
        /\ request' = [NoRequest EXCEPT !.method = "POST", !.route = "/api/report",
                                        !.body = body, !.userAgent = headerUserAgent(body)]

\* const { label } = await request.json(): the label is all the handler reads
PostEndpoints(tokens, labels, maxIds) ==
    /\ Idle
    /\ \E session \in BOOLEAN, body \in EndpointBodies(labels),
          token \in tokens \ {e.token : e \in endpoints} :
        /\ Apply(POST_endpoints(session, Get(body, "label"), token,
                                endpoints, reports, cspReports, nextId), maxIds)
        /\ request' = [NoRequest EXCEPT !.method = "POST", !.route = "/api/endpoints",
                                        !.session = session, !.body = body,
                                        !.label = Get(body, "label")]

DeleteEndpoints(maxIds) ==
    /\ Idle
    /\ \E session \in BOOLEAN, id \in 0..maxIds :
        /\ Apply(DELETE_endpoints(session, id, endpoints, reports, cspReports, nextId), maxIds)
        /\ request' = [NoRequest EXCEPT !.method = "DELETE", !.route = "/api/endpoints",
                                        !.session = session, !.id = id]

GetEndpoints ==
    /\ Idle
    /\ \E session \in BOOLEAN :
        /\ Apply(GET_endpoints(session, endpoints, reports, cspReports, nextId), nextId)
        /\ request' = [NoRequest EXCEPT !.method = "GET", !.route = "/api/endpoints",
                                        !.session = session]

\* a query without a session is sent once, not under every parameter
GetReports(queries) ==
    /\ Idle
    /\ \E session \in BOOLEAN, query \in queries :
        /\ session \/ query = NoQuery
        /\ Apply(GET_reports(session, query, endpoints, reports, cspReports, nextId,
                             timestamp, now), nextId)
        /\ request' = [NoRequest EXCEPT !.method = "GET", !.route = "/api/reports",
                                        !.session = session, !.query = query]

\* the wall clock moves on, between two exchanges
Tick(instants) ==
    /\ Idle
    /\ \E t \in instants : t > now /\ now' = t
    /\ UNCHANGED <<endpoints, reports, cspReports, nextId, timestamp, request, response, calls>>

\* the response has been sent: the exchange is over
Complete ==
    /\ ~Idle
    /\ request' = NoRequest
    /\ response' = NoResponse
    /\ UNCHANGED <<endpoints, reports, cspReports, nextId, timestamp, now, calls>>

\* A request arrives and is served one store operation at a time, in the
\* first free slot.
Free(cid) == calls[cid] = NoCall /\ \A c \in 1..(cid - 1) : calls[c] # NoCall

Begins(cid, call) ==
    /\ Free(cid)
    /\ calls' = [calls EXCEPT ![cid] = call]
    /\ UNCHANGED <<endpoints, reports, cspReports, nextId, timestamp, now, request, response>>

BeginLegacy(tokens, bodies) ==
    \E cid \in DOMAIN calls, endpointName \in tokens, body \in bodies :
        Begins(cid, Legacy_begin(endpointName, body, headerUserAgent(body), endpoints))

BeginV1(tokens, bodies) ==
    \E cid \in DOMAIN calls, endpointName \in tokens, body \in bodies :
        Begins(cid, V1_begin(endpointName, body, headerUserAgent(body), endpoints))

BeginDelete(sessions, ids) ==
    \E cid \in DOMAIN calls, session \in sessions, id \in ids :
        Begins(cid, Delete_begin(session, id))

\* the store takes what the operation hands back
Takes(cid, out, maxIds) ==
    /\ out.nextId <= maxIds + 1
    /\ endpoints' = out.endpoints
    /\ reports' = out.reports
    /\ cspReports' = out.cspReports
    /\ nextId' = out.nextId
    /\ timestamp' = stamp(out.reports \cup out.cspReports)
    /\ calls' = [calls EXCEPT ![cid] = out.call]
    /\ UNCHANGED <<now, request, response>>

\* the call is about to make the store operation pc of handler op
At(cid, op, pc) == calls[cid].op = op /\ calls[cid].pc = pc

LegacyFindUnique(failures, maxIds) ==
    \E cid \in DOMAIN calls, fails \in failures :
        /\ At(cid, "POST /api/report/{endpoint}", "findUnique")
        /\ Takes(cid, Legacy_findUnique(calls[cid], fails, endpoints, reports, cspReports,
                                        nextId), maxIds)

LegacyReportCreate(failures, maxIds) ==
    \E cid \in DOMAIN calls, fails \in failures :
        /\ At(cid, "POST /api/report/{endpoint}", "report.create")
        /\ Takes(cid, Legacy_report_create(calls[cid], fails, endpoints, reports, cspReports,
                                           nextId), maxIds)

V1FindUnique(failures, maxIds) ==
    \E cid \in DOMAIN calls, fails \in failures :
        /\ At(cid, "POST /api/v1/report/{endpoint}", "findUnique")
        /\ Takes(cid, V1_findUnique(calls[cid], fails, endpoints, reports, cspReports,
                                    nextId), maxIds)

V1EndpointCreate(failures, maxIds) ==
    \E cid \in DOMAIN calls, fails \in failures :
        /\ At(cid, "POST /api/v1/report/{endpoint}", "endpoint.create")
        /\ Takes(cid, V1_endpoint_create(calls[cid], fails, endpoints, reports, cspReports,
                                         nextId), maxIds)

V1CspReportCreate(failures, maxIds) ==
    \E cid \in DOMAIN calls, fails \in failures :
        /\ At(cid, "POST /api/v1/report/{endpoint}", "cspReport.create")
        /\ Takes(cid, V1_cspReport_create(calls[cid], fails, endpoints, reports, cspReports,
                                          nextId), maxIds)

V1ReportCreate(failures, maxIds) ==
    \E cid \in DOMAIN calls, fails \in failures :
        /\ At(cid, "POST /api/v1/report/{endpoint}", "report.create")
        /\ Takes(cid, V1_report_create(calls[cid], fails, endpoints, reports, cspReports,
                                       nextId), maxIds)

DeleteFindUnique(failures, maxIds) ==
    \E cid \in DOMAIN calls, fails \in failures :
        /\ At(cid, "DELETE /api/endpoints", "findUnique")
        /\ Takes(cid, Delete_findUnique(calls[cid], fails, endpoints, reports, cspReports,
                                        nextId), maxIds)

DeleteCspReportDeleteMany(failures, maxIds) ==
    \E cid \in DOMAIN calls, fails \in failures :
        /\ At(cid, "DELETE /api/endpoints", "cspReport.deleteMany")
        /\ Takes(cid, Delete_cspReport_deleteMany(calls[cid], fails, endpoints, reports,
                                                  cspReports, nextId), maxIds)

DeleteEndpointDelete(failures, maxIds) ==
    \E cid \in DOMAIN calls, fails \in failures :
        /\ At(cid, "DELETE /api/endpoints", "endpoint.delete")
        /\ Takes(cid, Delete_endpoint_delete(calls[cid], fails, endpoints, reports,
                                             cspReports, nextId), maxIds)

\* the answer of a call has been sent: its slot is free again
Return ==
    \E cid \in DOMAIN calls :
        /\ calls[cid].pc = "done"
        /\ calls' = [calls EXCEPT ![cid] = NoCall]
        /\ UNCHANGED <<endpoints, reports, cspReports, nextId, timestamp, now, request, response>>

\* The unified route under every body shape, one endpoint token.
Next ==
    \/ PostV1Report({"tokA"}, UnifiedBodies, MaxIds)
    \/ PostEndpoints({"tokA"}, AllLabels, MaxIds)
    \/ DeleteEndpoints(MaxIds)
    \/ GetEndpoints
    \/ GetReports({NoQuery, [NoQuery EXCEPT !.endpoint = Str("tokA"), !.timeRange = Str("all")]})
    \/ Complete

Spec == Init /\ [][Next]_vars

\* The three routes that take the legacy wrapper, under every csp-report
\* value, two endpoint tokens.
NextLegacy ==
    \/ PostV1Report(Tokens, LegacyBodies \cup OtherBodies, MaxLegacyIds)
    \/ PostReportEndpoint(Tokens, LegacyBodies \cup OtherBodies, MaxLegacyIds)
    \/ PostReport(LegacyBodies \cup OtherBodies, MaxLegacyIds)
    \/ PostEndpoints(Tokens, Labels, MaxLegacyIds)
    \/ DeleteEndpoints(MaxLegacyIds)
    \/ Complete

SpecLegacy == Init /\ [][NextLegacy]_vars

\* Ingestion on the unified route under two endpoint tokens, and the query
\* under every type, page and limit; the clock at the start and an hour and
\* a second later.
NextQuery ==
    \/ PostV1Report(Tokens, QueryBodies, MaxQueryIds)
    \/ GetReports(Queries(PagingRanges) \cup TimeQueries)
    \/ Tick({Instants[3]})
    \/ Complete

SpecQuery == Init /\ [][NextQuery]_vars

\* Ingestion and the query under every time range, the clock over every
\* instant.
NextTime ==
    \/ PostV1Report({"tokA"}, {RMinimal, Wrapped(Obj(CspRequired))}, MaxTimeIds)
    \/ GetReports(TimeQueries)
    \/ Tick(InstantsUpTo(MaxTimeInstants))
    \/ Complete

SpecTime == Init /\ [][NextTime]_vars

\* Ingestion on both token routes under two endpoint tokens, of payloads
\* that name an owner themselves, and the query of each endpoint.
NextScope ==
    \/ PostEndpoints(Tokens, {Str("a b")}, MaxScopeIds)
    \/ PostV1Report(Tokens, ScopedBodies, MaxScopeIds)
    \/ PostReportEndpoint(Tokens, ScopedBodies, MaxScopeIds)
    \/ GetReports(ScopeQueries)
    \/ Complete

SpecScope == Init /\ [][NextScope]_vars

\* the payloads of the interleaved runs: a legacy report, a modern report,
\* and a batch of two with a malformed element between them
StepBodies == {Wrapped(Obj(CspRequired)), RMinimal, Arr(<<RFull, RNoUrl, RMinimal>>)}

\* the payloads of the unified route in the concurrent runs: a batch of two
\* reports around a malformed element, and a batch without a well-formed
\* element, which stores nothing
ConcurrentBodies == {Arr(<<RMinimal, RNoUrl, RMinimal>>), Arr(<<RNoUrl>>)}

\* the store never fails, or may fail at any operation
Succeeds == {FALSE}
MayFail  == BOOLEAN

\* Legacy ingestion and the delete of an endpoint, served at the same time,
\* one store operation at a time, over the endpoints of the registry; the
\* store never fails.
NextRace ==
    \/ PostEndpoints({"tokA"}, {Str("a b")}, MaxStepIds)
    \/ Complete
    \/ BeginLegacy({"tokA"}, {Wrapped(Obj(CspRequired))})
    \/ BeginDelete({TRUE}, 1..MaxStepIds)
    \/ LegacyFindUnique(Succeeds, MaxStepIds)
    \/ LegacyReportCreate(Succeeds, MaxStepIds)
    \/ DeleteFindUnique(Succeeds, MaxStepIds)
    \/ DeleteCspReportDeleteMany(Succeeds, MaxStepIds)
    \/ DeleteEndpointDelete(Succeeds, MaxStepIds)
    \/ Return

SpecRace == Init /\ [][NextRace]_vars

\* Ingestion calls on both token routes served at the same time, no
\* delete; the store never fails.  The endpoint is the one the unified
\* route creates for the first call.
NextConcurrent ==
    \/ BeginLegacy({"tokA"}, {Wrapped(Obj(CspRequired))})
    \/ BeginV1({"tokA"}, ConcurrentBodies)
    \/ LegacyFindUnique(Succeeds, MaxStepIds)
    \/ LegacyReportCreate(Succeeds, MaxStepIds)
    \/ V1FindUnique(Succeeds, MaxStepIds)
    \/ V1EndpointCreate(Succeeds, MaxStepIds)
    \/ V1ReportCreate(Succeeds, MaxStepIds)
    \/ Return

SpecConcurrent == Init /\ [][NextConcurrent]_vars

\* The same calls over a store that may fail at any operation.
NextFailure ==
    \/ BeginLegacy({"tokA"}, {Wrapped(Obj(CspRequired))})
    \/ BeginV1({"tokA"}, StepBodies)
    \/ LegacyFindUnique(MayFail, MaxStepIds)
    \/ LegacyReportCreate(MayFail, MaxStepIds)
    \/ V1FindUnique(MayFail, MaxStepIds)
    \/ V1EndpointCreate(MayFail, MaxStepIds)
    \/ V1CspReportCreate(MayFail, MaxStepIds)
    \/ V1ReportCreate(MayFail, MaxStepIds)
    \/ Return

SpecFailure == Init /\ [][NextFailure]_vars

(***************************************************************************)
(* Vocabulary of the properties.  A handler step takes an idle state to    *)
(* one that holds the exchange: unprimed is the store before the request,  *)
(* primed the request, the response and the store after it.                *)
(***************************************************************************)
V1Route      == "/api/v1/report/{endpoint}"
LegacyRoute  == "/api/report/{endpoint}"
DefaultRoute == "/api/report"
TokenRoutes  == {V1Route, LegacyRoute}
IngestRoutes == {V1Route, LegacyRoute, DefaultRoute}

\* the token names an endpoint of the store
Known(token) == \E e \in endpoints : e.token = token

AllRows == reports \cup cspReports

\* the rows the step added
NewRows == (reports' \cup cspReports') \ (reports \cup cspReports)

RequiredKeys == {"document-uri", "violated-directive", "effective-directive", "original-policy"}
OptionalKeys == {"referrer", "blocked-uri", "line-number", "column-number", "source-file",
                 "status-code", "script-sample"}

\* the column a csp-report key is stored under
ColumnOf(key) ==
    CASE key = "document-uri"        -> "documentUri"
      [] key = "violated-directive"  -> "violatedDirective"
      [] key = "effective-directive" -> "effectiveDirective"
      [] key = "original-policy"     -> "originalPolicy"
      [] key = "blocked-uri"         -> "blockedUri"
      [] key = "line-number"         -> "lineNumber"
      [] key = "column-number"       -> "columnNumber"
      [] key = "source-file"         -> "sourceFile"
      [] key = "status-code"         -> "statusCode"
      [] key = "script-sample"       -> "scriptSample"
      [] OTHER                       -> key

HasKey(v, key) == v.kind = "obj" /\ key \in DOMAIN v.fields

\* a legacy payload: an object with a csp-report key
IsLegacyShape(body) == HasKey(body, "csp-report")

\* a valid legacy payload: the csp-report value is an object that carries the
\* four required keys, each a non-empty string
IsValidLegacy(body) ==
    /\ IsLegacyShape(body)
    /\ \A key \in RequiredKeys :
          /\ HasKey(body.fields["csp-report"], key)
          /\ body.fields["csp-report"].fields[key].kind = "str"
          /\ body.fields["csp-report"].fields[key].lit # ""

\* C1: an ingestion call on a token-gated route whose token matches no
\* endpoint is answered 404 with an error containing "not found" and stores
\* no report, whatever the shape of the payload (legacy object, array,
\* single object).
C1_UnknownTokenRejected ==
    [][ ( /\ Idle
          /\ request'.route \in TokenRoutes
          /\ request'.body.kind \in {"obj", "arr"}
          /\ ~Known(request'.endpointName) )
        => ( /\ response'.status = 404
             /\ IncludesNotFound(response'.error)
             /\ reports' = reports
             /\ cspReports' = cspReports ) ]_vars

\* C2: no ingestion call changes the set of endpoints.
C2_IngestionKeepsEndpoints ==
    [][ (Idle /\ request'.route \in IngestRoutes) => endpoints' = endpoints ]_vars

\* C3: a valid legacy CSP payload posted with an existing endpoint token is
\* answered 201 and stored as one row whose documentUri, violatedDirective,
\* effectiveDirective and originalPolicy are the values of the hyphenated
\* source fields, and whose endpointId is the id of the resolved endpoint.
C3_LegacyFieldsStored ==
    [][ ( /\ Idle
          /\ request'.route \in TokenRoutes
          /\ IsValidLegacy(request'.body)
          /\ Known(request'.endpointName) )
        => ( /\ response'.status = 201
             /\ Cardinality(NewRows) = 1
             /\ \A row \in NewRows :
                   /\ row.id = response'.id
                   /\ \E e \in endpoints :
                         e.token = request'.endpointName /\ row.endpointId = e.id
                   /\ \A key \in RequiredKeys :
                         /\ ColumnOf(key) \in DOMAIN row.data
                         /\ row.data[ColumnOf(key)]
                              = request'.body.fields["csp-report"].fields[key] ) ]_vars

\* C3 witness: the legacy route has stored a valid payload under an endpoint.
C3_Witness ==
    /\ request.route = LegacyRoute
    /\ IsValidLegacy(request.body)
    /\ response.status = 201
    /\ \E row \in reports, e \in endpoints :
          /\ row.id = response.id
          /\ row.endpointId = e.id
          /\ e.token = request.endpointName
          /\ row.data["violatedDirective"] = Str("script-src")
          /\ row.data["effectiveDirective"] = Str("script-src-elem")

\* the exchange being served stored a legacy payload: 201, and on the unified
\* route the legacy branch answered
LegacyStored ==
    /\ request.route \in IngestRoutes
    /\ IsLegacyShape(request.body)
    /\ response.status = 201
    /\ request.route = V1Route => response.format = "legacy-csp"

\* the csp-report value of the request, and the row the response names
CspOfRequest == request.body.fields["csp-report"]
StoredRow    == CHOOSE row \in AllRows : row.id = response.id

\* each optional sub-field is in the stored row, with the source value, when
\* the csp-report object contains it, and otherwise is not in the row
OptionalAsSupplied ==
    \A key \in OptionalKeys :
        IF HasKey(CspOfRequest, key)
        THEN /\ ColumnOf(key) \in DOMAIN StoredRow.data
             /\ StoredRow.data[ColumnOf(key)] = CspOfRequest.fields[key]
        ELSE ColumnOf(key) \notin DOMAIN StoredRow.data

\* C4: for each optional legacy sub-field the stored row holds the column
\* with the source value exactly when the csp-report object contains the
\* sub-field, whatever its value, and otherwise does not hold the column
\* (never an explicit null), for a payload posted to an existing endpoint.
C4_OptionalCopiedWhenPresent ==
    [][ ( /\ Idle
          /\ Known(request'.endpointName)
          /\ request'.route \in TokenRoutes
          /\ LegacyStored' )
        => OptionalAsSupplied' ]_vars

\* C5 as claimed: the stored disposition is "enforce" when the csp-report
\* object has no disposition field, and the supplied value when it has one.
C5_DispositionAsSupplied ==
    LegacyStored =>
        StoredRow.data["disposition"]
            = IF HasKey(CspOfRequest, "disposition")
              THEN CspOfRequest.fields["disposition"]
              ELSE Str("enforce")

\* C5 as amended: the stored disposition is the supplied value when that
\* value is truthy, and "enforce" when the field is absent or falsy (an
\* empty string, null, 0, false).
C5_DispositionDefault ==
    LegacyStored =>
        /\ "disposition" \in DOMAIN StoredRow.data
        /\ StoredRow.data["disposition"]
            = IF HasKey(CspOfRequest, "disposition")
                 /\ CspOfRequest.fields["disposition"] \notin
                        {Null, Str(""), Num(0), Bool("false")}
              THEN CspOfRequest.fields["disposition"]
              ELSE Str("enforce")

\* C5 witness: a payload without disposition has been stored with "enforce".
C5_Witness ==
    /\ LegacyStored
    /\ request.route = LegacyRoute
    /\ ~HasKey(CspOfRequest, "disposition")
    /\ StoredRow.data["disposition"] = Str("enforce")

\* the format the claim assigns to a body: by the csp-report key, then array,
\* then object
FormatByShape(body) ==
    IF IsLegacyShape(body) THEN "legacy-csp"
    ELSE IF body.kind = "arr" THEN "modern-array"
    ELSE "modern-single"

\* C6: on the unified route every object or array body sent to an existing
\* endpoint is handled as the format its shape decides (an object with a
\* csp-report key, whatever the value under it: legacy-csp; an array:
\* modern-array; any other object: modern-single), and the response's
\* format field names it.
C6_FormatByShape ==
    [][ ( /\ Idle
          /\ request'.route = V1Route
          /\ request'.body.kind \in {"obj", "arr"}
          /\ Known(request'.endpointName) )
        => response'.format = FormatByShape(request'.body) ]_vars

\* C7: a body that is neither an object nor an array (null, number, string,
\* boolean) sent to the unified route is answered 400 with an error string,
\* and nothing is written.
C7_ScalarBodyRejected ==
    [][ ( /\ Idle
          /\ request'.route = V1Route
          /\ request'.body.kind \in {"null", "num", "str", "bool"} )
        => ( /\ response'.status = 400
             /\ response'.error # ""
             /\ UNCHANGED <<endpoints, reports, cspReports>> ) ]_vars

\* an element of a modern array lacks type or url: the key is absent, or
\* holds null or the empty string
Missing(element, key) ==
    \/ ~HasKey(element, key)
    \/ element.fields[key] \in {Null, Str("")}

Malformed(element) == Missing(element, "type") \/ Missing(element, "url")

\* the number of elements of the sequence that satisfy P
Count(seq, P(_)) == Cardinality({i \in 1..Len(seq) : P(seq[i])})

IsReportObject(element) == element.kind = "obj"
AllObjects(seq) == \A i \in 1..Len(seq) : IsReportObject(seq[i])

WellFormed(element) == IsReportObject(element) /\ ~Malformed(element)

C9_MalformedNeverFailsBatch ==
    [][ ( /\ Idle
          /\ request'.route = V1Route
          /\ request'.body.kind = "arr"
          /\ Known(request'.endpointName) )
        => ( /\ response'.status = 201
             /\ Cardinality(reports' \ reports)
                  = Count(request'.body.elems, WellFormed) ) ]_vars

\* a modern report object: an object without a csp-report key
IsModernObject(body) == body.kind = "obj" /\ ~IsLegacyShape(body)

\* what the rows hold apart from their ids
Contents(rows) == {[endpointId |-> row.endpointId, data |-> row.data] : row \in rows}

\* C10: posting a modern report object r and posting the array [r] to the
\* same existing endpoint store identical records and answer identically
\* (status, reportsProcessed, totalReports), except for the format:
\* modern-single for the former, modern-array for the latter.
C10_SingleEqualsOneElementArray ==
    [][ ( /\ Idle
          /\ request'.route = V1Route
          /\ IsModernObject(request'.body)
          /\ Known(request'.endpointName) )
        => LET asArray == POST_v1_report(request'.endpointName, Arr(<<request'.body>>),
                                         request'.userAgent,
                                         endpoints, reports, cspReports, nextId)
           IN  /\ Contents(reports' \ reports) = Contents(asArray.reports \ reports)
               /\ cspReports' = asArray.cspReports
               /\ endpoints' = asArray.endpoints
               /\ response'.status = asArray.response.status
               /\ response'.reportsProcessed = asArray.response.reportsProcessed
               /\ response'.totalReports = asArray.response.totalReports
               /\ response'.format = "modern-single"
               /\ asArray.response.format = "modern-array" ]_vars

\* C10 witness: a single modern report object has been stored.
C10_Witness ==
    /\ request.route = V1Route
    /\ IsModernObject(request.body)
    /\ response.status = 201
    /\ response.format = "modern-single"
    /\ response.reportsProcessed = 1
    /\ \E row \in reports : row.data["type"] = request.body.fields["type"]

(***************************************************************************)
(* The endpoint registry.                                                  *)
(***************************************************************************)
EndpointsRoute == "/api/endpoints"

\* the rows of both collections an endpoint owns
RowsOf(endpointId) == {row \in AllRows : row.endpointId = endpointId}

\* C18: an authenticated POST /api/endpoints is answered 400, and creates
\* nothing, when the label is missing, not a string, empty, whitespace-only,
\* or longer than 100 characters after trimming; for any other label (one of
\* exactly 100 characters after trimming included) it is answered 201 and
\* the endpoint is stored with the trimmed label.
C18_LabelValidated ==
    [][ ( /\ Idle
          /\ request'.method = "POST"
          /\ request'.route = EndpointsRoute
          /\ request'.session )
        => LET label    == request'.label
               cases    == {c \in LabelCases : Str(c.text) = label}
               expected == (CHOOSE c \in cases : TRUE).trimmed
               valid    == /\ cases # {}
                           /\ Len(expected) >= 1
                           /\ Len(expected) <= 100
           IN  IF valid
               THEN /\ response'.status = 201
                    /\ \E e \in endpoints' \ endpoints :
                         /\ endpoints' = endpoints \cup {e}
                         /\ e.label = expected
                         /\ e.id = response'.id
               ELSE /\ response'.status = 400
                    /\ response'.error # ""
                    /\ endpoints' = endpoints ]_vars

\* C18 witness: a label of exactly 100 characters after trimming has been
\* stored, trimmed.
C18_Witness ==
    /\ request.method = "POST"
    /\ request.route = EndpointsRoute
    /\ request.session
    /\ request.label = Str(" " \o Rep(100) \o "  ")
    /\ response.status = 201
    /\ \E e \in endpoints : e.id = response.id /\ Len(e.label) = 100

\* C20: an authenticated DELETE /api/endpoints with an id that matches no
\* endpoint is answered 404 with an error string, and without an id 400; in
\* both cases no endpoint and no report is removed.
C20_DeleteUnknownRejected ==
    [][ ( /\ Idle
          /\ request'.method = "DELETE"
          /\ request'.route = EndpointsRoute
          /\ request'.session
          /\ \A e \in endpoints : e.id # request'.id )
        => ( /\ response'.status = IF request'.id = 0 THEN 400 ELSE 404
             /\ response'.error # ""
             /\ UNCHANGED <<endpoints, reports, cspReports>> ) ]_vars

\* C20 witness: a delete of an unknown id has been answered 404 while an
\* endpoint and a report of it are stored.
C20_Witness ==
    /\ request.method = "DELETE"
    /\ request.session
    /\ request.id # 0
    /\ response.status = 404
    /\ \E e \in endpoints : RowsOf(e.id) # {}

\* C19: in every reachable state each endpoint's token was generated by the
\* server at creation (an endpoint comes into being only through POST
\* /api/endpoints, and a token or id in its body is ignored), no two
\* endpoints share a token, and no operation changes the token of an
\* existing endpoint.
C19_TokensServerGenerated ==
    [][ /\ \A e \in endpoints' \ endpoints :
             /\ request'.method = "POST"
             /\ request'.route = EndpointsRoute
             /\ e.token # ClientToken
             /\ Str(e.token) # Get(request'.body, "token")
        /\ \A e1, e2 \in endpoints' : e1.token = e2.token => e1 = e2
        /\ \A e1 \in endpoints, e2 \in endpoints' :
             e1.id = e2.id => e1.token = e2.token ]_vars

(***************************************************************************)
(* The query.                                                              *)
(***************************************************************************)
ReportsRoute == "/api/reports"

\* the exchange being served is a query that was answered with reports
QueryAnswered ==
    /\ request.method = "GET"
    /\ request.route = ReportsRoute
    /\ response.status = 200

\* the positions of the answer's reports array
Positions == 1..Len(response.reports)

\* C12: GET /api/reports?type=csp never returns a record whose type differs
\* from "csp-violation", and type=generic never returns a record whose type
\* is "csp-violation", whatever was ingested before.
C12_TypeFilterPartitions ==
    QueryAnswered =>
        /\ request.query.type = Str("csp") =>
              \A i \in Positions : response.reports[i].reportType = "csp-violation"
        /\ request.query.type = Str("generic") =>
              \A i \in Positions : response.reports[i].reportType # "csp-violation"

\* C13: under every combination of the endpoint, type, timeRange, page and
\* limit filters the reports array of the answer is in descending order of
\* timestamp, CSP and generic reports together included.
C13_SortedByTimestampDesc ==
    QueryAnswered =>
        \A i, j \in Positions :
            i < j => response.reports[i].timestamp >= response.reports[j].timestamp

\* C13 witness: an answer holds a legacy report and, ahead of it, a younger
\* report of the unified collection.
C13_Witness ==
    /\ QueryAnswered
    /\ \E i, j \in Positions :
         /\ i < j
         /\ response.reports[i].source = "reporting-api"
         /\ response.reports[j].source = "legacy"
         /\ response.reports[i].timestamp > response.reports[j].timestamp

\* the number a page or limit parameter stands for, and the default when it
\* is absent
NumberOf(param, default) ==
    IF param = Null THEN default
    ELSE CHOOSE n \in 1..99 : Str(ToString(n)) = param

\* the whole list the query of the request selects: its answer when page is
\* absent and limit is 99, more than the store holds
FullList ==
    GET_reports(TRUE, [request.query EXCEPT !.page = Null, !.limit = Str("99")],
                endpoints, reports, cspReports, nextId, timestamp, now).response.reports

\* C14: GET /api/reports applies offset pagination under every value of the
\* type filter (csp, generic, all, absent): with page p >= 1 (default 1) and
\* limit L >= 1 (default 50) the reports returned are the elements at
\* positions (p-1)*L up to (p-1)*L+L-1 of the whole list, so at most L
\* reports are returned.
C14_OffsetPagination ==
    QueryAnswered =>
        LET p    == NumberOf(request.query.page, 1)
            L    == NumberOf(request.query.limit, 50)
            last == IF p * L < Len(FullList) THEN p * L ELSE Len(FullList)
        IN  /\ Len(response.reports) <= L
            /\ response.reports = SubSeq(FullList, (p - 1) * L + 1, last)

\* the windows of the named time ranges, in seconds
ExpectedWindow ==
    [last_30m |-> 1800, last_1h |-> 3600, last_24h |-> 86400,
     last_7d |-> 604800, last_30d |-> 2592000]

\* the report is not older than the window of the request's time range;
\* an absent time range is last_1h, and all is no restriction
InWindow(row) ==
    LET range == IF request.query.timeRange = Null THEN "last_1h"
                 ELSE request.query.timeRange.lit
    IN  range \in DOMAIN ExpectedWindow => now - timestamp[row.id] <= ExpectedWindow[range]

\* the report belongs to the endpoint the request's endpoint filter names
InEndpoint(row) ==
    request.query.endpoint # Null =>
        \E e \in endpoints : e.id = row.endpointId /\ Str(e.token) = request.query.endpoint

\* a CSP-violation report: a legacy row, or a unified row of that type
IsCspViolation(row) == row \in cspReports \/ row.data["type"] = Str("csp-violation")

\* C15: in every answer of GET /api/reports cspCount is the number of stored
\* CSP-violation reports, and genericCount the number of stored non-CSP
\* reports, that match the endpoint and timeRange filters, whatever the
\* page, the limit and the type filter are.
C15_CountsIgnoreTypeAndPage ==
    QueryAnswered =>
        /\ response.cspCount =
             Cardinality({row \in AllRows :
                            IsCspViolation(row) /\ InEndpoint(row) /\ InWindow(row)})
        /\ response.genericCount =
             Cardinality({row \in AllRows :
                            ~IsCspViolation(row) /\ InEndpoint(row) /\ InWindow(row)})

\* the rows a type filter selects from, by collection
Candidates ==
    IF request.query.type = Str("csp") THEN cspReports
    ELSE IF request.query.type = Str("generic") THEN reports
    ELSE AllRows

Returned(row) == \E i \in Positions : response.reports[i].id = row.id

\* C16: the timeRange filter is a minimum-timestamp filter computed from the
\* clock at the query: under last_30m, last_1h (also when timeRange is
\* absent), last_24h, last_7d and last_30d a report is returned exactly when
\* it is not older than 30 minutes, 1 hour, 24 hours, 7 days and 30 days;
\* under all every report is returned.
C16_TimeRangeWindow ==
    ( /\ QueryAnswered
      /\ request.query.endpoint = Null
      /\ request.query.page = Null
      /\ request.query.limit = Null )
    => \A row \in Candidates : Returned(row) <=> InWindow(row)

\* C16 witness: under the default time range a report inserted one second
\* ago is returned and one older than an hour is not.
C16_Witness ==
    /\ QueryAnswered
    /\ request.query.timeRange = Null
    /\ \E young, old \in AllRows :
         /\ now - timestamp[young.id] = 1
         /\ Returned(young)
         /\ now - timestamp[old.id] > 3600
         /\ ~Returned(old)

\* the routes that require a session
ProtectedRoutes == {ReportsRoute, EndpointsRoute}

\* C17: a request to a session-protected route (GET /api/reports, GET, POST
\* and DELETE /api/endpoints) made without a session is answered 401 with an
\* error string, carries no report and no endpoint, and leaves the stored
\* endpoints and reports unchanged.
C17_SessionRequired ==
    [][ ( /\ Idle
          /\ request'.route \in ProtectedRoutes
          /\ ~request'.session )
        => ( /\ response'.status = 401
             /\ response'.error # ""
             /\ response'.reports = <<>>
             /\ response'.endpoints = {}
             /\ response'.id = -1
             /\ UNCHANGED <<endpoints, reports, cspReports>> ) ]_vars

\* C17 witness: the listing of the endpoints has been refused while an
\* endpoint is stored.
C17_Witness ==
    /\ request.method = "GET"
    /\ request.route = EndpointsRoute
    /\ ~request.session
    /\ response.status = 401
    /\ endpoints # {}

\* C11: once the delete of an endpoint has answered success, no stored
\* report of either collection has that endpointId, a query filtered to the
\* endpoint's token returns nothing, and a lookup by the token finds nothing.
C11_DeleteCascades ==
    [][ ( /\ Idle
          /\ request'.method = "DELETE"
          /\ request'.route = EndpointsRoute
          /\ response'.status = 200 )
        => LET gone == CHOOSE e \in endpoints : e.id = request'.id
           IN  /\ \A row \in reports' \cup cspReports' : row.endpointId # gone.id
               /\ findUnique(endpoints', gone.token) = NoEndpoint
               /\ GET_reports(TRUE, [NoQuery EXCEPT !.endpoint = Str(gone.token),
                                                    !.timeRange = Str("all")],
                              endpoints', reports', cspReports', nextId',
                              timestamp', now').response.reports = <<>> ]_vars

\* the report is of the kind the request's type filter names: csp is the
\* CSP-violation reports, generic the others, all or absent every report
InType(row) ==
    /\ request.query.type = Str("csp") => IsCspViolation(row)
    /\ request.query.type = Str("generic") => ~IsCspViolation(row)

\* C21: a GET /api/reports made with a session, whose filters match none of
\* the stored reports, is answered 200 with an empty reports array and with
\* totalCount, cspCount and genericCount equal to 0, never an error status.
C21_NoMatchIsEmptyNotError ==
    ( /\ request.method = "GET"
      /\ request.route = ReportsRoute
      /\ request.session
      /\ \A row \in AllRows : ~(InEndpoint(row) /\ InWindow(row) /\ InType(row)) )
    => ( /\ response.status = 200
         /\ response.reports = <<>>
         /\ response.totalCount = 0
         /\ response.cspCount = 0
         /\ response.genericCount = 0 )

\* C22: a legacy CSP payload accepted on a token-gated route
\* (/api/report/{token} or /api/v1/report/{token}) produces exactly one
\* record, in the unified report store, with type "csp-violation", url equal
\* to the payload's document-uri, body unset, and rawReport equal to the
\* serialization of the whole request body.
C22_LegacyStoredUnified ==
    [][ ( /\ Idle
          /\ request'.route \in TokenRoutes
          /\ LegacyStored' )
        => ( /\ Cardinality(NewRows) = 1
             /\ NewRows \subseteq reports'
             /\ \A row \in NewRows :
                   /\ "type" \in DOMAIN row.data
                   /\ row.data["type"] = Str("csp-violation")
                   /\ HasKey(CspOfRequest', "document-uri") =>
                         /\ "url" \in DOMAIN row.data
                         /\ row.data["url"] = CspOfRequest'.fields["document-uri"]
                   /\ "body" \notin DOMAIN row.data
                   /\ row.data["rawReport"] = Str(Stringify(request'.body, "")) ) ]_vars

\* the column a field of a modern report is stored in
ModernColumnOf(key) == IF key = "user_agent" THEN "userAgent" ELSE key

ModernKeys == {"type", "url", "age", "user_agent", "body"}

\* the columns of a CSP violation
CspColumns ==
    {ColumnOf(key) : key \in RequiredKeys \cup OptionalKeys} \cup {"disposition", "rawReport"}

\* the value is a non-empty string
IsNonEmptyString(v) == v.kind = "str" /\ v.lit # ""

\* C23: a modern report is accepted only if its type and url are non-empty
\* strings, and the record stored for an accepted report holds type, url,
\* age, userAgent and body equal to the payload's type, url, age, user_agent
\* and body for every value supplied (age 0, and a body that is 0, false or
\* the empty string, included), and holds no CSP-specific column.
C23_ModernFieldsStored ==
    [][ ( /\ Idle
          /\ request'.route = V1Route
          /\ IsModernObject(request'.body)
          /\ response'.status = 201
          /\ response'.reportsProcessed = 1 )
        => ( /\ IsNonEmptyString(request'.body.fields["type"])
             /\ IsNonEmptyString(request'.body.fields["url"])
             /\ Cardinality(NewRows) = 1
             /\ \A row \in NewRows :
                   /\ row \in reports'
                   /\ \A key \in ModernKeys :
                         HasKey(request'.body, key) =>
                            /\ ModernColumnOf(key) \in DOMAIN row.data
                            /\ row.data[ModernColumnOf(key)] = request'.body.fields[key]
                   /\ DOMAIN row.data \cap CspColumns = {} ) ]_vars

\* the body is of no shape the route recognises: no csp-report wrapper on
\* /api/report/{token}, neither an object nor an array on the unified route
Unrecognised(route, body) ==
    \/ route = LegacyRoute /\ ~IsLegacyShape(body)
    \/ route = V1Route /\ body.kind \notin {"obj", "arr"}

\* C24: endpoint resolution comes before format detection: an ingestion
\* request with an unknown token and a body of unrecognised shape is
\* answered 404 (endpoint not found), not 400.
C24_ResolutionBeforeDetection ==
    [][ ( /\ Idle
          /\ request'.route \in TokenRoutes
          /\ ~Known(request'.endpointName)
          /\ Unrecognised(request'.route, request'.body) )
        => ( /\ response'.status = 404
             /\ IncludesNotFound(response'.error) ) ]_vars

\* C26: a delete answered with success names the deleted endpoint's label,
\* and the number of reports in its confirmation message is the number of
\* reports the call removed from the store, whether the endpoint held CSP
\* reports, generic reports, or both.
C26_DeleteReportsCount ==
    [][ ( /\ Idle
          /\ request'.method = "DELETE"
          /\ request'.route = EndpointsRoute
          /\ response'.status = 200 )
        => ( /\ \E e \in endpoints : e.id = request'.id /\ response'.message.label = e.label
             /\ response'.message.reports
                  = Cardinality((reports \cup cspReports) \ (reports' \cup cspReports')) ) ]_vars

\* the smaller of two numbers
Min(a, b) == IF a < b THEN a ELSE b

\* C30: in every successful answer of GET /api/reports with page >= 1 and
\* limit >= 1, totalCount = cspCount + genericCount, totalPages is the
\* smallest integer not less than totalCount / limit, currentPage and
\* itemsPerPage are the requested page and limit, and the number of reports
\* returned is at most min(limit, totalCount).
C30_ResponseStatistics ==
    QueryAnswered =>
        LET p == NumberOf(request.query.page, 1)
            L == NumberOf(request.query.limit, 50)
        IN  /\ response.totalCount = response.cspCount + response.genericCount
            /\ response.totalPages * L >= response.totalCount
            /\ (response.totalPages - 1) * L < response.totalCount
            /\ response.totalPages >= 0
            /\ response.currentPage = p
            /\ response.itemsPerPage = L
            /\ Len(response.reports) <= Min(L, response.totalCount)

\* the ids of the reports a query for every report of the endpoint of token
\* t returns, over the store after the step
ScopeOf(t) ==
    LET answer == GET_reports(TRUE, [NoQuery EXCEPT !.endpoint = Str(t),
                                                    !.timeRange = Str("all")],
                              endpoints', reports', cspReports', nextId',
                              timestamp', now').response.reports
    IN  {answer[i].id : i \in 1..Len(answer)}

\* C29: a report ingested with token T is stored with the id of the
\* endpoint whose token is T as its endpointId, whatever owner, id or
\* timestamp the payload carries; a query with endpoint=T then returns it,
\* and a query with endpoint=T' for another token T' never does: the answer
\* to a query by token holds reports of that token's endpoint only.
C29_ScopedToUrlToken ==
    [][ /\ ( /\ Idle
             /\ request'.route \in TokenRoutes
             /\ response'.status = 201 )
           => ( /\ NewRows # {}
                /\ \A row \in NewRows :
                      /\ \E e \in endpoints' :
                            e.token = request'.endpointName /\ row.endpointId = e.id
                      /\ \A t \in Tokens \cup {"tokC"} :
                            row.id \in ScopeOf(t) <=> t = request'.endpointName )
        /\ ( /\ Idle
             /\ QueryAnswered'
             /\ request'.query.endpoint # Null )
           => \A i \in 1..Len(response'.reports) :
                 \E e \in endpoints :
                    /\ Str(e.token) = request'.query.endpoint
                    /\ response'.reports[i].endpointId = e.id ]_vars

\* C29 witness: a payload that names the other endpoint as its owner has
\* been stored under the endpoint of the URL token.
C29_Witness ==
    /\ request.route \in TokenRoutes
    /\ request.body \in ScopedBodies
    /\ response.status = 201
    /\ \E mine, other \in endpoints :
          /\ mine.token = request.endpointName
          /\ other.token # request.endpointName
          /\ Num(other.id) = Foreign.endpointId
          /\ \E row \in AllRows : row.id = nextId - 1 /\ row.endpointId = mine.id

(***************************************************************************)
(* Requests served at the same time.                                       *)
(***************************************************************************)
LegacyOp == "POST /api/report/{endpoint}"
V1Op     == "POST /api/v1/report/{endpoint}"
DeleteOp == "DELETE /api/endpoints"

\* the calls being served that are ingestion calls
Ingesting == {cid \in DOMAIN calls : calls[cid].op \in {LegacyOp, V1Op}}

\* the reports of a payload that are accepted, in order: the payload itself
\* for a legacy report, the well-formed elements for a modern one
Accepted(body) ==
    IF IsLegacyShape(body) THEN <<body>> ELSE SelectSeq(reportsArrayOf(body), WellFormed)

\* the row holds the accepted report
Holds(row, report) ==
    IF IsLegacyShape(report)
    THEN /\ row.data["type"] = Str("csp-violation")
         /\ row.data["documentUri"] = report.fields["csp-report"].fields["document-uri"]
    ELSE /\ row.data["type"] = report.fields["type"]
         /\ row.data["url"] = report.fields["url"]

\* the ids of the rows the call has created
Created(call) == {call.createdReports[k] : k \in 1..Len(call.createdReports)}

\* every row the call has created is in the store, under the endpoint of
\* the call's token, and holds the report it was created for
Persisted(call) ==
    \A k \in 1..Len(call.createdReports) :
        /\ k <= Len(Accepted(call.body))
        /\ \E row \in AllRows, e \in endpoints :
              /\ row.id = call.createdReports[k]
              /\ e.token = call.endpointName
              /\ row.endpointId = e.id
              /\ Holds(row, Accepted(call.body)[k])

\* the call has answered 201, having created a row for each accepted report
Completed201(call) ==
    /\ call.response.status = 201
    /\ Len(call.createdReports) = Len(Accepted(call.body))

\* an ingestion call against an endpoint that existed when it began: its
\* rows are persisted, and once it has answered it has answered 201
Settled(cid) ==
    (calls[cid].op \in {LegacyOp, V1Op} /\ calls[cid].known)
    => ( /\ Persisted(calls[cid])
         /\ calls[cid].pc = "done" => Completed201(calls[cid]) )

\* C28: ingestion calls served at the same time against an endpoint that
\* exists when they begin, with no delete and no store failure, all answer
\* 201 and the reports of each are persisted, under every interleaving of
\* their store operations: no step removes or changes a stored report, no
\* two reports share an id, and the store grows by exactly the reports the
\* calls create, one for each accepted report.
C28_ConcurrentIngestion ==
    [][ /\ reports \cup cspReports \subseteq reports' \cup cspReports'
        /\ {row.id : row \in NewRows}
             = UNION {Created(calls'[cid]) \ Created(calls[cid]) : cid \in DOMAIN calls}
        /\ Cardinality(NewRows) = Cardinality({row.id : row \in NewRows})
        /\ \A old \in reports \cup cspReports, new \in NewRows : old.id # new.id
        /\ \A cid \in DOMAIN calls : Settled(cid)' ]_vars

\* C28 witness: two calls against the endpoint have both answered 201, and
\* the second stored its report between the two inserts of the first.
C28_Witness ==
    \E c1, c2 \in Ingesting :
        /\ c1 # c2
        /\ calls[c1].known /\ calls[c2].known
        /\ calls[c1].pc = "done" /\ calls[c2].pc = "done"
        /\ calls[c1].response.status = 201 /\ calls[c2].response.status = 201
        /\ Len(calls[c1].createdReports) = 2
        /\ Len(calls[c2].createdReports) = 1
        /\ calls[c1].createdReports[1] < calls[c2].createdReports[1]
        /\ calls[c2].createdReports[1] < calls[c1].createdReports[2]
        /\ Persisted(calls[c1]) /\ Persisted(calls[c2])

\* C25: with ingestion calls and deletes of endpoints interleaved at their
\* store operations (token lookup, report insert, delete of the reports,
\* delete of the endpoint), in every reachable state each stored report's
\* endpointId is the id of an endpoint that exists: no report is created
\* for, or survives, a deleted endpoint.
C25_NoOrphanReports ==
    \A row \in AllRows : \E e \in endpoints : e.id = row.endpointId

\* a store failure of an ingestion call is answered 500 with an error
Surfaced(cid) ==
    (calls[cid].op \in {LegacyOp, V1Op} /\ calls[cid].pc = "done" /\ calls[cid].failed)
    => ( /\ calls[cid].response.status = 500
         /\ calls[cid].response.error # ""
         /\ ~calls[cid].response.success )

\* C27: a store failure during ingestion is surfaced as an internal error:
\* whenever an insert fails while a request is being served, the insert of
\* one element of a modern-array batch included, the answer is 500 with an
\* error string, not a 201 success.
C27_StoreFailureSurfaced ==
    \A cid \in DOMAIN calls : Surfaced(cid)

====
